---- MODULE Spec2Model ----
(***************************************************************************)
(* Model of revive's per-file lint pass (lint/file.go): the directive      *)
(* suppression engine (File.disabledIntervals and its closures), the rule  *)
(* application pipeline (File.lint) and the interval filter                *)
(* (File.filterFailures).                                                  *)
(*                                                                         *)
(* Strings are modelled as sequences of tokens: the empty string is <<>>,  *)
(* the rule name R1 is <<"R1">>, a comment text is the sequence of its     *)
(* lexical pieces ("//", "revive:", "disable", ":", ",", " ", words).      *)
(***************************************************************************)
EXTENDS Integers, Sequences, FiniteSets, TLC

\* ------------------------------------------------------------------ bounds
MaxLine == 4
MaxConf == 1

\* ------------------------------------------------------- program constants
MaxInt32 == 2147483647
directiveSpecifyDisableReason == <<"specify-disable-reason">>

R1 == <<"R1">>
R2 == <<"R2">>
\* the rules handed to lint, in the caller's order
Rules == <<R1, R2>>
RuleSet == {Rules[i] : i \in 1..Len(Rules)}

NoNode == <<>>
NoPosition == <<0, 0>>
NoMatch == <<>>
Space == " "

\* ---------------------------------------------------------- sequence helpers
RECURSIVE TakeWhileNotSpace(_)
TakeWhileNotSpace(s) ==
  IF s = <<>> \/ Head(s) = Space THEN <<>>
  ELSE <<Head(s)>> \o TakeWhileNotSpace(Tail(s))

RECURSIVE TrimLeft(_, _)
TrimLeft(s, cut) ==
  IF s # <<>> /\ Head(s) = cut THEN TrimLeft(Tail(s), cut) ELSE s

RECURSIVE TrimRight(_, _)
TrimRight(s, cut) ==
  IF s # <<>> /\ s[Len(s)] = cut THEN TrimRight(SubSeq(s, 1, Len(s) - 1), cut) ELSE s

\* strings.Trim(s, cutset) for a one-character cutset
Trim(s, cut) == TrimRight(TrimLeft(s, cut), cut)

\* strings.Split(s, ","): always at least one (possibly empty) piece
RECURSIVE Split(_, _)
Split(s, sep) ==
  IF s = <<>> THEN << <<>> >>
  ELSE IF Head(s) = sep THEN << <<>> >> \o Split(Tail(s), sep)
  ELSE LET rest == Split(Tail(s), sep)
       IN  << <<Head(s)>> \o Head(rest) >> \o Tail(rest)

\* -------------------------------------------------------- directiveRegexp
\* ^//[\s]*revive:(enable|disable)(?:-(line|next-line))?(?::([^\s]+))?[\s]*(?: (.+))?$
\* The result is NoMatch or <<whole, directive, modifier, rules, reason>>
\* shifted so that index 1 is group 1 (directivePos), ..., 4 is group 4.
MatchTail(directive, rest0) ==
  LET hasMod == rest0 # <<>> /\ Head(rest0) \in {"-line", "-next-line"}
      modifier == IF hasMod THEN (IF Head(rest0) = "-line" THEN "line" ELSE "next-line") ELSE ""
      rest1 == IF hasMod THEN Tail(rest0) ELSE rest0
      hasRules == Len(rest1) >= 2 /\ rest1[1] = ":" /\ rest1[2] # Space
      rules == IF hasRules THEN TakeWhileNotSpace(Tail(rest1)) ELSE <<>>
      rest2 == IF hasRules THEN SubSeq(rest1, Len(rules) + 2, Len(rest1)) ELSE rest1
      reason == TrimLeft(rest2, Space)
  IN  IF rest2 = <<>> \/ Head(rest2) = Space
      THEN <<directive, modifier, rules, reason>>
      ELSE NoMatch

FindStringSubmatch(text) ==
  IF text = <<>> \/ Head(text) # "//" THEN NoMatch
  ELSE LET body == TrimLeft(Tail(text), Space)
       IN  IF Len(body) >= 2 /\ body[1] = "revive:" /\ body[2] \in {"enable", "disable"}
           THEN MatchTail(body[2], SubSeq(body, 3, Len(body)))
           ELSE NoMatch

directivePos == 1
modifierPos == 2
rulesPos == 3
reasonPos == 4

\* ------------------------------------------------- the toggle-event engine
Existing(m, name) == IF name \in DOMAIN m THEN m[name] ELSE <<>>

handleConfig(m, isEnabled, line, name) ==
  LET existing == Existing(m, name)
      m1 == [n \in DOMAIN m \cup {name} |-> IF n = name THEN existing ELSE m[n]]
  IN  IF \/ (Len(existing) > 1 /\ existing[Len(existing)].enabled = isEnabled)
         \/ (Len(existing) = 0 /\ isEnabled)
      THEN m1
      ELSE [m1 EXCEPT ![name] =
              Append(existing, [enabled |-> isEnabled, position |-> line])]

RECURSIVE handleRules(_, _, _, _, _)
handleRules(m, modifier, isEnabled, line, ruleNames) ==
  IF ruleNames = <<>> THEN m
  ELSE LET name == Head(ruleNames)
           m1 == CASE modifier = "line" ->
                        handleConfig(handleConfig(m, isEnabled, line, name),
                                     ~isEnabled, line, name)
                   [] modifier = "next-line" ->
                        handleConfig(handleConfig(m, isEnabled, line + 1, name),
                                     ~isEnabled, line + 1, name)
                   [] OTHER -> handleConfig(m, isEnabled, line, name)
       IN  handleRules(m1, modifier, isEnabled, line, Tail(ruleNames))

\* one rule's event list to its intervals: events are paired in order, an
\* unpaired last event leaves To at math.MaxInt32
RuleIntervals(disabledArr) ==
  [k \in 1..((Len(disabledArr) + 1) \div 2) |->
     [From |-> disabledArr[2 * k - 1].position,
      To   |-> IF 2 * k <= Len(disabledArr) THEN disabledArr[2 * k].position
               ELSE MaxInt32]]

getEnabledDisabledIntervals(m) == [n \in DOMAIN m |-> RuleIntervals(m[n])]

\* the non-empty names of the rule list (strings.Trim(name, "\n") != "")
RuleNamesOf(rulesText) ==
  LET tempNames == Split(rulesText, ",")
      trimmed == [i \in 1..Len(tempNames) |-> Trim(tempNames[i], "\n")]
  IN  SelectSeq(trimmed, LAMBDA n : n # <<>>)


\* ------------------------------------------------------------ filterFailures
\* mutant: only the start line of the failure is tested
Disabled_StartOnly(failure, ruleIntervals) ==
  \E i \in 1..Len(ruleIntervals) :
    /\ failure.Position[1] >= ruleIntervals[i].From
    /\ failure.Position[1] <= ruleIntervals[i].To

Disabled(failure, ruleIntervals) ==
  LET fStart == failure.Position[1]
      fEnd == failure.Position[2]
  IN  \E i \in 1..Len(ruleIntervals) :
        LET intStart == ruleIntervals[i].From
            intEnd == ruleIntervals[i].To
        IN  \/ (fStart >= intStart /\ fStart <= intEnd)
            \/ (fEnd >= intStart /\ fEnd <= intEnd)

RECURSIVE Reverse(_)
Reverse(s) == IF s = <<>> THEN <<>> ELSE Append(Reverse(Tail(s)), Head(s))

\* mutant: the kept failures are collected in front of the result, not behind
filterFailures_Prepending(failures, intervalsMap) ==
  Reverse(SelectSeq(failures,
                    LAMBDA failure :
                      \/ failure.RuleName \notin DOMAIN intervalsMap
                      \/ ~Disabled(failure, intervalsMap[failure.RuleName])))

filterFailures(failures, intervalsMap) ==
  SelectSeq(failures,
            LAMBDA failure :
              \/ failure.RuleName \notin DOMAIN intervalsMap
              \/ ~Disabled(failure, intervalsMap[failure.RuleName]))

\* ------------------------------------------------------------------- state
VARIABLES
  file,                     \* f.AST.Comments: the comment groups, in source order
  config,                   \* Config: Confidence, the directive policy, exclusions
  apply,                    \* what each rule's Apply returns for this file
  pc,                       \* "comments", "rules", "done" (returned nil), "error"
  gi, ci,                   \* the comment being scanned: group gi, comment ci
  enabledDisabledRulesMap,  \* rule name -> its toggle events
  intervals,                \* lint's disabledIntervals, once built
  ri,                       \* index of the rule the loop of lint is at
  sendq,                    \* failures the current loop is still to send
  out,                      \* everything sent on the failures channel, in order
  applied,                  \* the rules whose Apply has been called, in order
  err,                      \* lint's return value: "" before it returns, "nil", or the message
  consumer,                 \* who receives from the channel: Format, or one that stops
  issues,                   \* Format's issues[fn], fn the name of the file
  closed,                   \* the failures channel has been closed
  fpc,                      \* Format: "range" (in its loop) or "returned"
  document                  \* what Format returned

vars == <<file, config, apply, pc, gi, ci, enabledDisabledRulesMap, intervals,
          ri, sendq, out, applied, err, consumer, issues, closed, fpc, document>>
consumerVars == <<consumer, issues, closed, fpc, document>>

\* a comment group: .start is the line of its first comment, .list its
\* comments, one "//" comment per line
CommentLine(g, i) == g.start + i - 1
\* f.ToPosition(c.End()).Line for the group c
GroupEndLine(g) == g.start + Len(g.list) - 1

IsInternal(failure) == failure.internal
MustExclude(rule) == rule \in config.exclude
\* ToFailurePosition(pos, end, f), lines only
ToFailurePosition(start, end) == <<start, end>>

MissingReasonFailure(line) ==
  [Confidence |-> 1,
   RuleName   |-> directiveSpecifyDisableReason,
   Failure    |-> "reason of lint disabling not found",
   Position   |-> ToFailurePosition(line, line),
   Node       |-> <<line, line>>,
   internal   |-> FALSE]

\* mutant: an empty rule list stands for the first rule only
TargetRules_FirstOnly(match) ==
  LET ruleNames == RuleNamesOf(match[rulesPos])
  IN  IF Len(ruleNames) = 0 THEN <<Rules[1]>> ELSE ruleNames

\* the rule names a matched directive applies to
TargetRules(match) ==
  LET ruleNames == RuleNamesOf(match[rulesPos])
  IN  IF Len(ruleNames) = 0 THEN Rules ELSE ruleNames

\* mutant: the reason text is not looked at
MustReportReason_AnyDisable(match) ==
  config.policy /\ match[directivePos] = "disable"

MustReportReason(match) ==
  /\ config.policy /\ match[directivePos] = "disable"
  /\ Trim(match[reasonPos], Space) = <<>>

\* one comment of a group, as the body of handleComment's loop treats it
CommentEffect(m, text, line) ==
  LET match == FindStringSubmatch(text)
  IN  IF match = NoMatch \/ MustReportReason(match) THEN m
      ELSE handleRules(m, match[modifierPos], match[directivePos] = "enable",
                       line, TargetRules(match))

AdvanceComment ==
  IF ci < Len(file[gi].list)
  THEN gi' = gi /\ ci' = ci + 1
  ELSE gi' = gi + 1 /\ ci' = 1

\* mutant: the missing-reason failure is held to the confidence threshold
handleComment_Gated ==
  /\ pc = "comments" /\ sendq = <<>> /\ gi <= Len(file)
  /\ LET g == file[gi]
         text == g.list[ci]
         match == FindStringSubmatch(text)
     IN  /\ enabledDisabledRulesMap' =
              CommentEffect(enabledDisabledRulesMap, text, GroupEndLine(g))
         /\ sendq' = IF /\ match # NoMatch /\ MustReportReason(match)
                        /\ MissingReasonFailure(CommentLine(g, ci)).Confidence >= config.Confidence
                     THEN <<MissingReasonFailure(CommentLine(g, ci))>>
                     ELSE <<>>
  /\ AdvanceComment
  /\ UNCHANGED <<file, config, apply, pc, intervals, ri, out, applied, err, consumerVars>>

handleComment ==
  /\ pc = "comments" /\ sendq = <<>> /\ gi <= Len(file)
  /\ LET g == file[gi]
         text == g.list[ci]
         match == FindStringSubmatch(text)
     IN  /\ enabledDisabledRulesMap' =
              CommentEffect(enabledDisabledRulesMap, text, GroupEndLine(g))
         /\ sendq' = IF match # NoMatch /\ MustReportReason(match)
                     THEN <<MissingReasonFailure(CommentLine(g, ci))>>
                     ELSE <<>>
  /\ AdvanceComment
  /\ UNCHANGED <<file, config, apply, pc, intervals, ri, out, applied, err, consumerVars>>

\* xml.Escape, on the message texts of the model
XmlEscape(text) ==
  CASE text = "<" -> "&lt;"
    [] text = ">" -> "&gt;"
    [] text = "&" -> "&amp;"
    [] OTHER -> text

\* the issue Format makes of a failure (column and severity left out)
Issue(failure) ==
  [Line       |-> failure.Position[1],
   What       |-> XmlEscape(failure.Failure),
   Confidence |-> failure.Confidence,
   RuleName   |-> failure.RuleName]

\* the consumer takes another value from the channel
Receiving ==
  /\ fpc = "range" /\ ~closed
  /\ ~consumer.stops \/ Len(out) < consumer.after

\* mutant: Format keeps one issue per rule name
Send_OnePerRule ==
  /\ sendq # <<>> /\ Receiving
  /\ out' = Append(out, Head(sendq))
  /\ issues' = IF \E k \in 1..Len(issues) : issues[k].RuleName = Head(sendq).RuleName
               THEN issues
               ELSE Append(issues, Issue(Head(sendq)))
  /\ sendq' = Tail(sendq)
  /\ UNCHANGED <<file, config, apply, pc, gi, ci, enabledDisabledRulesMap,
                 intervals, ri, applied, err, consumer, closed, fpc, document>>

\* the channel send "failures <- failure", met by Format's
\* "for failure := range failures" and one turn of its loop body
Send ==
  /\ sendq # <<>> /\ Receiving
  /\ out' = Append(out, Head(sendq))
  /\ issues' = Append(issues, Issue(Head(sendq)))
  /\ sendq' = Tail(sendq)
  /\ UNCHANGED <<file, config, apply, pc, gi, ci, enabledDisabledRulesMap,
                 intervals, ri, applied, err, consumer, closed, fpc, document>>

\* disabledIntervals returns getEnabledDisabledIntervals()
disabledIntervals ==
  /\ pc = "comments" /\ sendq = <<>> /\ gi > Len(file)
  /\ intervals' = getEnabledDisabledIntervals(enabledDisabledRulesMap)
  /\ pc' = "rules"
  /\ UNCHANGED <<file, config, apply, gi, ci, enabledDisabledRulesMap, ri,
                 sendq, out, applied, err, consumerVars>>

Normalize(failure, rule) ==
  [failure EXCEPT
     !.RuleName = IF failure.RuleName = <<>> THEN rule ELSE @,
     !.Position = IF failure.Node # NoNode
                  THEN ToFailurePosition(failure.Node[1], failure.Node[2])
                  ELSE @]

\* mutant: an internal failure below the confidence threshold is let through
FirstInternal_Gated(failures) ==
  IF \E i \in 1..Len(failures) :
       IsInternal(failures[i]) /\ failures[i].Confidence >= config.Confidence
  THEN CHOOSE i \in 1..Len(failures) :
         /\ IsInternal(failures[i]) /\ failures[i].Confidence >= config.Confidence
         /\ \A j \in 1..(i - 1) :
              ~(IsInternal(failures[j]) /\ failures[j].Confidence >= config.Confidence)
  ELSE 0

\* mutant: the internal flag is never looked at
FirstInternal_Ignored(failures) == 0

FirstInternal(failures) ==
  IF \E i \in 1..Len(failures) : IsInternal(failures[i])
  THEN CHOOSE i \in 1..Len(failures) :
         /\ IsInternal(failures[i])
         /\ \A j \in 1..(i - 1) : ~IsInternal(failures[j])
  ELSE 0

\* mutant: the gate is strict
PassesConfidence_Strict(failure) == failure.Confidence > config.Confidence

PassesConfidence(failure) == failure.Confidence >= config.Confidence

\* what the body of lint's rule loop sends for one rule that does not abort
RuleOutput(rule, intervalsMap) ==
  LET currentFailures == [i \in 1..Len(apply[rule]) |-> Normalize(apply[rule][i], rule)]
  IN  SelectSeq(filterFailures(currentFailures, intervalsMap), PassesConfidence)

\* one iteration of "for _, currentRule := range rules"
lintRule ==
  /\ pc = "rules" /\ sendq = <<>> /\ ri <= Len(Rules)
  /\ LET currentRule == Rules[ri]
         bad == FirstInternal(apply[currentRule])
     IN  \/ /\ MustExclude(currentRule)
            /\ ri' = ri + 1
            /\ UNCHANGED <<pc, sendq, applied, err>>
         \/ /\ ~MustExclude(currentRule)
            /\ bad # 0
            /\ pc' = "error"
            /\ err' = apply[currentRule][bad].Failure
            /\ applied' = Append(applied, currentRule)
            /\ UNCHANGED <<ri, sendq>>
         \/ /\ ~MustExclude(currentRule)
            /\ bad = 0
            /\ sendq' = RuleOutput(currentRule, intervals)
            /\ applied' = Append(applied, currentRule)
            /\ ri' = ri + 1
            /\ UNCHANGED <<pc, err>>
  /\ UNCHANGED <<file, config, apply, gi, ci, enabledDisabledRulesMap, intervals, out,
                 consumerVars>>

\* "return nil" after the last rule
lintReturn ==
  /\ pc = "rules" /\ sendq = <<>> /\ ri > Len(Rules)
  /\ pc' = "done"
  /\ err' = "nil"
  /\ UNCHANGED <<file, config, apply, gi, ci, enabledDisabledRulesMap, intervals,
                 ri, sendq, out, applied, consumerVars>>

\* the owner of the channel closes it once lint has returned
Close ==
  /\ pc \in {"done", "error"} /\ ~closed
  /\ closed' = TRUE
  /\ UNCHANGED <<file, config, apply, pc, gi, ci, enabledDisabledRulesMap, intervals,
                 ri, sendq, out, applied, err, consumer, issues, fpc, document>>

\* t.Execute(buf, issues): one file element per key of issues, its errors in
\* the order they were appended; no element when nothing was received
Execute(issuesOfFile) ==
  IF issuesOfFile = <<>> THEN <<>> ELSE <<[file |-> "fn", errors |-> issuesOfFile]>>

\* mutant: Format returns without waiting for the channel to be closed
FormatReturn_Early ==
  /\ fpc = "range" /\ ~consumer.stops
  /\ fpc' = "returned"
  /\ document' = Execute(issues)
  /\ UNCHANGED <<file, config, apply, pc, gi, ci, enabledDisabledRulesMap, intervals,
                 ri, sendq, out, applied, err, consumer, issues, closed>>

\* Format's range loop ends when the channel is closed; it renders and returns
FormatReturn ==
  /\ fpc = "range" /\ closed /\ ~consumer.stops
  /\ fpc' = "returned"
  /\ document' = Execute(issues)
  /\ UNCHANGED <<file, config, apply, pc, gi, ci, enabledDisabledRulesMap, intervals,
                 ri, sendq, out, applied, err, consumer, issues, closed>>

Next ==
  handleComment \/ Send \/ disabledIntervals \/ lintRule \/ lintReturn
    \/ Close \/ FormatReturn

\* Format as the consumer: it receives whatever is sent
Checkstyle == [stops |-> FALSE, after |-> 0]
\* a consumer that stops receiving after n values
StopsAfter(n) == [stops |-> TRUE, after |-> n]

InitFor(files, configs, applies, consumers) ==
  /\ file \in files
  /\ config \in configs
  /\ apply \in applies
  /\ consumer \in consumers
  /\ pc = "comments"
  /\ gi = 1 /\ ci = 1
  /\ enabledDisabledRulesMap = << >>
  /\ intervals = << >>
  /\ ri = 1
  /\ sendq = <<>>
  /\ out = <<>>
  /\ applied = <<>>
  /\ err = ""
  /\ issues = <<>>
  /\ closed = FALSE
  /\ fpc = "range"
  /\ document = <<>>

InitWith(files, configs, applies) == InitFor(files, configs, applies, {Checkstyle})


\* ------------------------------------------------------------ input pools
\* the text of a directive comment
Text(action, modifier, tail) == <<"//", "revive:", action>> \o modifier \o tail
Persistent == <<>>
LineScope == <<"-line">>
NextLineScope == <<"-next-line">>
Scopes == {Persistent, LineScope, NextLineScope}
Actions == {"enable", "disable"}
Named(r) == <<":">> \o r
Unnamed == <<>>
PlainComment == <<"//", "note">>

SeqsOf(S, lens) == UNION {[1..k -> S] : k \in lens}
Ranges == {<<s, e>> : s \in 1..MaxLine, e \in 1..MaxLine} \ {<<s, e>> \in (1..MaxLine) \X (1..MaxLine) : s > e}

Groups(texts, lens) ==
  {g \in [start : 1..MaxLine, list : SeqsOf(texts, lens)] : GroupEndLine(g) <= MaxLine}
OneGroup(texts, lens) == {<<g>> : g \in Groups(texts, lens)}
TwoGroups(texts) ==
  {<<g1, g2>> : g1 \in Groups(texts, {1}), g2 \in Groups(texts, {1})}
    \ {<<g1, g2>> \in Groups(texts, {1}) \X Groups(texts, {1}) : g1.start >= g2.start}

Finding(pos, conf, text) ==
  [Confidence |-> conf, RuleName |-> <<>>, Failure |-> text,
   Position |-> pos, Node |-> NoNode, internal |-> FALSE]
InternalFinding ==
  [Confidence |-> 0, RuleName |-> <<>>, Failure |-> "internal fault",
   Position |-> <<1, 1>>, Node |-> NoNode, internal |-> TRUE]

Cfg(policy, confidence, exclude) ==
  [policy |-> policy, Confidence |-> confidence, exclude |-> exclude]
Applies(forR1, forR2) ==
  {[r \in RuleSet |-> IF r = R1 THEN a ELSE b] : a \in forR1, b \in forR2}

\* a few runs that take the branches a specification's main pool leaves out
EdgeRuns ==
  \/ InitWith({<< >>}, {Cfg(FALSE, 0, {R1}), Cfg(FALSE, MaxConf, {})},
              Applies({<<Finding(<<1, 1>>, 0, "a")>>},
                      {<<InternalFinding>>, <<Finding(<<1, 1>>, MaxConf, "c")>>}))
  \/ InitWith(OneGroup({Text("disable", Persistent, Unnamed)}, {1}),
              {Cfg(TRUE, 0, {})},
              Applies({<<Finding(<<1, 1>>, 0, "a")>>}, {<<>>}))

\* ------------------------------------------- the directive engine, end to end
DirectiveTexts ==
  {Text(a, s, Named(R1)) : a \in Actions, s \in Scopes}
    \cup {Text("disable", Persistent, Unnamed), PlainComment}

InitDirectives ==
  \/ InitWith(OneGroup(DirectiveTexts, {1, 2}) \cup TwoGroups(DirectiveTexts),
              {Cfg(FALSE, MaxConf, {})},
              Applies(SeqsOf({Finding(p, MaxConf, "a") : p \in Ranges}, {0, 1}),
                      SeqsOf({Finding(<<l, l>>, MaxConf, "c") : l \in 1..MaxLine}, {0, 1})))
  \/ EdgeRuns

SpecDirectives == InitDirectives /\ [][Next]_vars


\* ---------------------------------------------- the rule pipeline, end to end
PipelineFiles ==
  {<< >>,
   <<[start |-> 1, list |-> <<Text("disable", Persistent, Named(R1))>>]>>,
   <<[start |-> MaxLine, list |-> <<Text("disable", LineScope, Unnamed)>>]>>}
PipelineLines == {<<1, 1>>, <<MaxLine, MaxLine>>}
PipelineFindings(texts) ==
  {Finding(p, c, t) : p \in PipelineLines, c \in 0..MaxConf, t \in texts}
    \cup {InternalFinding}

Init ==
  InitWith(PipelineFiles,
           {Cfg(p, c, x) : p \in BOOLEAN, c \in 0..MaxConf, x \in {{}, {R1}}},
           Applies(SeqsOf(PipelineFindings({"a"}), {0, 1, 2, 3}),
                   SeqsOf(PipelineFindings({"c"}), {0, 1})))

Spec == Init /\ [][Next]_vars

\* ------------------------------------------------ the directive texts, in full
NoReason == <<>>
Why == <<Space, "why">>
Blank == <<Space, Space>>
RuleLists == {Unnamed, <<":">>, <<":", ",">>, Named(R1), <<":", "R1", ",", "R2">>}
TextPool ==
  {Text(a, s, l \o r) : a \in Actions, s \in {Persistent, LineScope},
                        l \in RuleLists, r \in {NoReason, Why}}
    \cup {Text("disable", Persistent, Named(R1) \o Blank),
          <<"//", Space, "revive:", "disable">>,
          PlainComment}

InitText ==
  \/ InitWith(OneGroup(TextPool, {1, 2}) \cup TwoGroups(TextPool),
              {Cfg(p, 0, {}) : p \in BOOLEAN},
              Applies({<<Finding(<<MaxLine, MaxLine>>, MaxConf, "a")>>},
                      {<<Finding(<<MaxLine, MaxLine>>, MaxConf, "c")>>}))
  \/ EdgeRuns

SpecText == InitText /\ [][Next]_vars

\* ------------------------------------------- sequences of directives for R1
\* each comment is a group of its own, so that the line the engine resolves
\* is the line of the comment
ThreeGroups(texts) ==
  {<<[start |-> 1, list |-> <<t1>>], [start |-> 2, list |-> <<t2>>],
     [start |-> 3, list |-> <<t3>>]>> : t1 \in texts, t2 \in texts, t3 \in texts}

InitToggles ==
  \/ InitWith(OneGroup(DirectiveTexts, {1}) \cup TwoGroups(DirectiveTexts)
                \cup ThreeGroups(DirectiveTexts),
              {Cfg(FALSE, MaxConf, {})},
              Applies(SeqsOf({Finding(<<l, l>>, MaxConf, "a") : l \in 1..MaxLine}, {0, 1}),
                      {<<>>}))
  \/ EdgeRuns

SpecToggles == InitToggles /\ [][Next]_vars

\* ------------------------------------------ findings as rules hand them over
\* with or without a rule name, a position, a node reference
RawFindings ==
  {[Confidence |-> MaxConf, RuleName |-> n, Failure |-> "a",
    Position |-> p, Node |-> nd, internal |-> FALSE] :
     n \in {<<>>, R2}, p \in {NoPosition} \cup PipelineLines,
     nd \in {NoNode} \cup PipelineLines}

InitNormalize ==
  \/ InitWith({<< >>, <<[start |-> MaxLine, list |-> <<Text("disable", LineScope, Named(R1))>>]>>},
              {Cfg(FALSE, MaxConf, {})},
              Applies(SeqsOf(RawFindings, {0, 1, 2}),
                      {<<>>, <<Finding(<<MaxLine, MaxLine>>, MaxConf, "c")>>}))
  \/ EdgeRuns

SpecNormalize == InitNormalize /\ [][Next]_vars

\* -------------------------------------------- the pass and its consumer
MaxPatience == 2
ChannelFindings == {Finding(<<1, 1>>, MaxConf, "a"), InternalFinding}

InitChannel ==
  InitFor({<< >>, <<[start |-> 1, list |-> <<Text("disable", Persistent, Unnamed)>>]>>},
          {Cfg(p, 0, x) : p \in BOOLEAN, x \in {{}, {R1}}},
          Applies(SeqsOf(ChannelFindings, {0, 1, 2}),
                  {<<>>, <<Finding(<<MaxLine, MaxLine>>, MaxConf, "c")>>}),
          {Checkstyle} \cup {StopsAfter(n) : n \in 0..MaxPatience})

\* the goroutine of lint, taken step by step
lintStep == handleComment \/ disabledIntervals \/ lintRule \/ lintReturn

\* every goroutine that can run does run: the one of lint, the consumer at the
\* channel, the owner of the channel
SpecChannel ==
  /\ InitChannel /\ [][Next]_vars
  /\ WF_vars(lintStep) /\ WF_vars(Send) /\ WF_vars(Close) /\ WF_vars(FormatReturn)

\* ------------------------------------------------ the policy on reasons
AdvisoryTexts ==
  {Text("disable", Persistent, Unnamed),
   Text("disable", LineScope, Named(R1)),
   Text("disable", Persistent, Why),
   Text("disable", Persistent, Named(directiveSpecifyDisableReason) \o Why),
   PlainComment}

InitAdvisory ==
  \/ InitWith(OneGroup(AdvisoryTexts, {1, 2}) \cup TwoGroups(AdvisoryTexts),
              {Cfg(TRUE, c, {}) : c \in {0, MaxConf + 1}},
              Applies({<<>>, <<Finding(<<1, 1>>, MaxConf + 1, "a")>>, <<InternalFinding>>,
                       <<Finding(<<1, 1>>, MaxConf + 1, "a"), InternalFinding>>},
                      {<<>>, <<Finding(<<MaxLine, MaxLine>>, MaxConf + 1, "c")>>}))
  \/ EdgeRuns

SpecAdvisory == InitAdvisory /\ [][Next]_vars

\* ------------------------------------------------ vocabulary of the claims
\* the comments of the file, as <<group index, index in the group>>
Places == {p \in (1..Len(file)) \X (1..MaxLine) : p[2] <= Len(file[p[1]].list)}
TextAt(p) == file[p[1]].list[p[2]]
LineAt(p) == CommentLine(file[p[1]], p[2])
Before(p, q) == p[1] < q[1] \/ (p[1] = q[1] /\ p[2] < q[2])
SingleCommentGroups == \A g \in 1..Len(file) : Len(file[g].list) = 1

\* the comment is a directive with this action and scope that names exactly r
IsDirective(text, action, modifier, r) ==
  LET match == FindStringSubmatch(text)
  IN  /\ match # NoMatch
      /\ match[directivePos] = action /\ match[modifierPos] = modifier
      /\ RuleNamesOf(match[rulesPos]) = <<r>>
\* the comment is a directive that applies to r, by name or by naming no rule
Targets(text, r) ==
  LET match == FindStringSubmatch(text)
  IN  match # NoMatch /\ \E i \in 1..Len(TargetRules(match)) : TargetRules(match)[i] = r
ActionOf(text) == FindStringSubmatch(text)[directivePos]
ScopeOf(text) == FindStringSubmatch(text)[modifierPos]

\* a finding of rule r as the output stream shows it: under r's name unless
\* the rule named it itself
WithRuleName(f, r) == [f EXCEPT !.RuleName = IF @ = <<>> THEN r ELSE @]
\* the findings rule r produced
Produced(r) == {WithRuleName(apply[r][i], r) : i \in 1..Len(apply[r])}
AtOrAboveThreshold(f) == f.Confidence >= config.Confidence
Excluded(r) == r \in config.exclude
HasInternal(r) == \E i \in 1..Len(apply[r]) : apply[r][i].internal
Emitted(f) == \E k \in 1..Len(out) : out[k] = f
Touches(f, from, to) ==
  \/ (f.Position[1] >= from /\ f.Position[1] <= to)
  \/ (f.Position[2] >= from /\ f.Position[2] <= to)
On(f, line) == f.Position = <<line, line>>
IntervalsOf(m, r) == IF r \in DOMAIN m THEN m[r] ELSE <<>>

\* C1: a persistent disable:R1 at line L with no later enable directive for
\* R1 suppresses R1 from L on, whatever other disable directives for R1 the
\* file holds: no finding of R1 that starts or ends at a line >= L is emitted.
\* (Stated for files whose comment groups are single comments, where the
\* line of the directive is the line the engine resolves.)
C1_UnterminatedDisable ==
  (pc = "done" /\ ~config.policy /\ SingleCommentGroups) =>
    \A p \in Places :
      ( /\ IsDirective(TextAt(p), "disable", "", R1)
        /\ \A q \in Places :
             Before(p, q) => ~(Targets(TextAt(q), R1) /\ ActionOf(TextAt(q)) = "enable") )
      => \A k \in 1..Len(out) :
           out[k].RuleName = R1 => ~Touches(out[k], LineAt(p), MaxInt32)

\* C2: with a persistent disable:R1 at L1 and a later persistent enable:R1 at
\* L2 as the only directives for R1, no finding of R1 that starts or ends in
\* [L1,L2] is emitted, and every finding of R2 (the target of no directive)
\* in that range with confidence at or above the threshold is emitted.
C2_PersistentPair ==
  pc = "done" =>
    \A p1 \in Places : \A p2 \in Places :
      ( /\ Before(p1, p2)
        /\ IsDirective(TextAt(p1), "disable", "", R1)
        /\ IsDirective(TextAt(p2), "enable", "", R1)
        /\ \A q \in Places \ {p1, p2} : ~Targets(TextAt(q), R1)
        /\ \A q \in Places : ~Targets(TextAt(q), R2) )
      => /\ \A k \in 1..Len(out) :
              out[k].RuleName = R1 => ~Touches(out[k], LineAt(p1), LineAt(p2))
         /\ \A f \in Produced(R2) :
              ( /\ Touches(f, LineAt(p1), LineAt(p2))
                /\ ~Excluded(R2) /\ AtOrAboveThreshold(f) ) => Emitted(f)

\* C3: whatever directives precede it, as long as they leave R1 not
\* persistently disabled, a disable-line:R1 on line L drops the findings of
\* R1 on line L and only those: a finding of R1 on any other single line is
\* emitted.  (Stated where the disable-line is the last directive for R1 and
\* the only one whose action is disable, in single-comment groups, so that no
\* other directive is meant to disable any line.)
C3_DisableLine ==
  (pc = "done" /\ ~config.policy /\ SingleCommentGroups) =>
    \A p \in Places :
      ( /\ IsDirective(TextAt(p), "disable", "line", R1)
        /\ \A q \in Places \ {p} :
             Targets(TextAt(q), R1) => (Before(q, p) /\ ActionOf(TextAt(q)) = "enable") )
      => /\ \A k \in 1..Len(out) :
              out[k].RuleName = R1 => ~On(out[k], LineAt(p))
         /\ \A f \in Produced(R1) : \A x \in (1..MaxLine) \ {LineAt(p)} :
              (On(f, x) /\ ~Excluded(R1) /\ AtOrAboveThreshold(f)) => Emitted(f)

\* C4: in a file with no other directive for R1, a disable-next-line:R1 on
\* line L yields exactly the interval [L+1,L+1] for R1: its findings on line
\* L+1 are dropped, those on line L and on line L+2 are emitted.
C4_DisableNextLine ==
  (pc = "done" /\ ~config.policy) =>
    \A p \in Places :
      ( /\ IsDirective(TextAt(p), "disable", "next-line", R1)
        /\ \A q \in Places \ {p} : ~Targets(TextAt(q), R1) )
      => /\ IntervalsOf(intervals, R1) = <<[From |-> LineAt(p) + 1, To |-> LineAt(p) + 1]>>
         /\ \A k \in 1..Len(out) :
              out[k].RuleName = R1 => ~On(out[k], LineAt(p) + 1)
         /\ \A f \in Produced(R1) :
              ( /\ (On(f, LineAt(p)) \/ On(f, LineAt(p) + 2))
                /\ ~Excluded(R1) /\ AtOrAboveThreshold(f) ) => Emitted(f)


\* ------------------------------------------------------ the pipeline claims
IsAdvisory(f) == f.RuleName = directiveSpecifyDisableReason
RuleFindings(s) == SelectSeq(s, LAMBDA f : ~IsAdvisory(f))
AppliedSet == {applied[i] : i \in 1..Len(applied)}
RuleIndex(r) == CHOOSE i \in 1..Len(Rules) : Rules[i] = r
\* a finding is suppressed: a disabled interval of its rule name holds its
\* start line or its end line
Suppressed(f) ==
  \E i \in 1..Len(IntervalsOf(intervals, f.RuleName)) :
    Touches(f, IntervalsOf(intervals, f.RuleName)[i].From,
               IntervalsOf(intervals, f.RuleName)[i].To)

C7_State ==
  /\ \A r \in AppliedSet : HasInternal(r) => (pc = "error" /\ err \notin {"", "nil"})
  /\ pc = "error" =>
       LET last == applied[Len(applied)]
       IN  /\ HasInternal(last)
           /\ sendq = <<>>
           /\ \A j \in 1..Len(Rules) :
                j > RuleIndex(last) =>
                  /\ Rules[j] \notin AppliedSet
                  /\ \A k \in 1..Len(out) : out[k].RuleName # Rules[j]

\* C7: once the Apply result of a rule holds an internal finding, lint
\* returns a non-nil error, no rule ordered after that rule is applied and no
\* finding of a later rule is on the output stream; from then on nothing is
\* sent any more and the pass stays aborted.
C7_InternalAborts ==
  /\ []C7_State
  /\ [][pc = "error" => (pc' = "error" /\ out' = out /\ applied' = applied /\ err' = err)]_vars

\* the pass aborted in R1 while R2 held a finding that would have been sent
C7_Witness ==
  /\ pc = "error" /\ applied = <<R1>> /\ ~Excluded(R2)
  /\ \E f \in Produced(R2) : ~f.internal /\ AtOrAboveThreshold(f) /\ ~Suppressed(f)

Key(f) == <<f.Failure, f.Confidence, f.Position>>
Keys(s) == [i \in 1..Len(s) |-> Key(s[i])]
RECURSIVE ApplyResultsFrom(_)
\* the Apply results of the rules from index i on, in the order of the rules
ApplyResultsFrom(i) ==
  IF i > Len(Rules) THEN <<>> ELSE apply[Rules[i]] \o ApplyResultsFrom(i + 1)
RECURSIVE IsSubsequence(_, _)
IsSubsequence(a, b) ==
  IF a = <<>> THEN TRUE
  ELSE IF b = <<>> THEN FALSE
  ELSE IF Head(a) = Head(b) THEN IsSubsequence(Tail(a), Tail(b))
  ELSE IsSubsequence(a, Tail(b))

\* C9: the rule findings on the output stream (and those about to be sent)
\* are, in order and without repetition, findings of the Apply results taken
\* rule by rule in the order the rules were supplied: filtering only removes.
C9_OrderKept ==
  IsSubsequence(Keys(RuleFindings(out \o sendq)), Keys(ApplyResultsFrom(1)))

\* both rules wrote to the stream, R1 two different findings, and something
\* was removed on the way
C9_Witness ==
  /\ pc = "done" /\ Len(RuleFindings(out)) >= 3
  /\ Len(RuleFindings(out)) < Len(ApplyResultsFrom(1))
  /\ \E k \in 1..(Len(out) - 2) :
       /\ out[k].RuleName = R1 /\ out[k + 1].RuleName = R1 /\ out[k + 2].RuleName = R2
       /\ Key(out[k]) # Key(out[k + 1])

Intersects(f, from, to) == f.Position[1] <= to /\ f.Position[2] >= from
Contains(f, from, to) == f.Position[1] < from /\ f.Position[2] > to
GatedFindings ==
  UNION {{f \in Produced(r) : AtOrAboveThreshold(f)} : r \in RuleSet \ config.exclude}

\* C8 as claimed: a finding is dropped exactly if its line range intersects a
\* disabled interval of its rule name, the range strictly containing the
\* interval included.
C8_IntersectionDrops ==
  pc = "done" =>
    \A f \in GatedFindings :
      ~Emitted(f) <=>
        \E i \in 1..Len(IntervalsOf(intervals, f.RuleName)) :
          Intersects(f, IntervalsOf(intervals, f.RuleName)[i].From,
                        IntervalsOf(intervals, f.RuleName)[i].To)

\* C8 as amended: a finding is dropped exactly if its start line or its end
\* line lies within a disabled interval of its rule name; a range that
\* strictly contains every interval it meets is not dropped.
C8_EndpointDrops ==
  pc = "done" =>
    \A f \in GatedFindings :
      ~Emitted(f) <=>
        \E i \in 1..Len(IntervalsOf(intervals, f.RuleName)) :
          Touches(f, IntervalsOf(intervals, f.RuleName)[i].From,
                     IntervalsOf(intervals, f.RuleName)[i].To)

\* a finding whose range strictly contains a disabled interval of its rule
\* was sent, and the other rule's finding, with a line inside an interval,
\* was dropped
C8_Witness ==
  /\ pc = "done"
  /\ \E f \in Produced(R1) :
       /\ Emitted(f)
       /\ \E i \in 1..Len(IntervalsOf(intervals, R1)) :
            Contains(f, intervals[R1][i].From, intervals[R1][i].To)
  /\ \E f \in Produced(R2) : ~Emitted(f) /\ Suppressed(f)


\* ------------------------------------------------- the directive-text claims
\* the written form of a comment, read off its text alone
ActionAt(text) ==
  CHOOSE k \in 1..Len(text) : text[k] \in Actions /\ \A j \in 1..(k - 1) : text[j] \notin Actions
Shaped(text) ==
  /\ text # <<>> /\ Head(text) = "//"
  /\ \E k \in 2..Len(text) :
       /\ text[k] \in Actions /\ text[k - 1] = "revive:"
       /\ \A j \in 2..(k - 2) : text[j] = Space
PrefixLen(text) ==
  LET k == ActionAt(text)
  IN  IF k < Len(text) /\ text[k + 1] \in {"-line", "-next-line"} THEN k + 1 ELSE k
AfterPrefix(text) == SubSeq(text, PrefixLen(text) + 1, Len(text))
RuleListLen(rest) ==
  IF rest # <<>> /\ Head(rest) = ":" THEN 1 + Len(TakeWhileNotSpace(Tail(rest))) ELSE 0
\* "//revive:disable": no colon
NoColonForm(text) ==
  Shaped(text) /\ (AfterPrefix(text) = <<>> \/ Head(AfterPrefix(text)) = Space)
\* "//revive:disable:": a colon and no rule name behind it
BareColonForm(text) == Shaped(text) /\ RuleListLen(AfterPrefix(text)) = 1
\* "//revive:disable:,": a colon and nothing but commas behind it
OnlyCommasForm(text) ==
  /\ Shaped(text) /\ RuleListLen(AfterPrefix(text)) > 1
  /\ \A j \in 2..RuleListLen(AfterPrefix(text)) : AfterPrefix(text)[j] = ","
\* the same directive, naming rule r
NameIt(text, r) ==
  SubSeq(text, 1, PrefixLen(text)) \o <<":">> \o r
    \o SubSeq(AfterPrefix(text), RuleListLen(AfterPrefix(text)) + 1, Len(AfterPrefix(text)))

\* the directive of a comment with no reason text behind it
EmptyReasonDisable(text) ==
  LET match == FindStringSubmatch(text)
  IN  /\ match # NoMatch /\ match[directivePos] = "disable"
      /\ \A j \in 1..Len(match[reasonPos]) : match[reasonPos][j] = Space

\* the comment as a reading of the file takes it
ReadAs(text, r, reading) ==
  CASE reading = "claimed" ->
         IF NoColonForm(text) \/ BareColonForm(text) THEN NameIt(text, r) ELSE text
    [] reading = "amended" ->
         IF NoColonForm(text) \/ OnlyCommasForm(text) THEN NameIt(text, r)
         ELSE IF BareColonForm(text) THEN PlainComment ELSE text
    [] reading = "reasoned" ->
         IF EmptyReasonDisable(text) THEN PlainComment ELSE text

RECURSIVE ScanAs(_, _, _, _, _)
\* the toggle events the engine collects from comment i of group g on, when
\* every comment is first rewritten by ReadAs
ScanAs(m, g, i, r, reading) ==
  IF g > Len(file) THEN m
  ELSE IF i > Len(file[g].list) THEN ScanAs(m, g + 1, 1, r, reading)
  ELSE ScanAs(CommentEffect(m, ReadAs(file[g].list[i], r, reading), GroupEndLine(file[g])),
              g, i + 1, r, reading)

\* C5 as claimed: a directive written with no colon, or with a colon and no
\* rule name, gives every configured rule the disabled intervals that the
\* same directive naming that rule gives it.
C5_NoRuleListAsClaimed ==
  pc = "done" =>
    \A r \in RuleSet :
      IntervalsOf(intervals, r) =
        IntervalsOf(getEnabledDisabledIntervals(ScanAs(<< >>, 1, 1, r, "claimed")), r)

\* C5 as amended: a directive written with no colon, or with a colon and
\* nothing but commas, gives every configured rule the disabled intervals
\* that the same directive naming that rule gives it; a comment with a colon
\* and nothing behind it is no directive and changes no interval.
C5_NoRuleList ==
  pc = "done" =>
    \A r \in RuleSet :
      IntervalsOf(intervals, r) =
        IntervalsOf(getEnabledDisabledIntervals(ScanAs(<< >>, 1, 1, r, "amended")), r)

\* a no-colon disable and a commas-only directive were applied, next to a
\* bare-colon comment or not, and both rules got an interval from them
C5_Witness ==
  /\ pc = "done" /\ ~config.policy
  /\ \E p \in Places : NoColonForm(TextAt(p)) /\ ActionOf(TextAt(p)) = "disable"
  /\ \E p \in Places : OnlyCommasForm(TextAt(p))
  /\ \A p \in Places : FindStringSubmatch(TextAt(p)) # NoMatch
                         => RuleNamesOf(FindStringSubmatch(TextAt(p))[rulesPos]) = <<>>
  /\ \A r \in RuleSet : IntervalsOf(intervals, r) # <<>>

Scanned(p) == pc # "comments" \/ p[1] < gi \/ (p[1] = gi /\ p[2] < ci)
Advisories == SelectSeq(out \o sendq, IsAdvisory)

\* C6: with the policy active, every disable directive scanned so far that
\* has no reason text accounts for exactly one finding named
\* specify-disable-reason, of confidence 1 and at the directive's line,
\* however many rules it names, and it leaves no toggle event: the intervals
\* are those of the file without it.  A persistent disable:R1 with a reason
\* yields no such finding and, being the first directive for R1, opens R1's
\* first interval.  With the policy inactive there is no such finding.
C6_MissingReason ==
  /\ ~config.policy => Advisories = <<>>
  /\ config.policy =>
       /\ Len(Advisories) = Cardinality({p \in Places : Scanned(p) /\ EmptyReasonDisable(TextAt(p))})
       /\ \A k \in 1..Len(Advisories) :
            /\ Advisories[k].Confidence = 1
            /\ \E p \in Places :
                 /\ Scanned(p) /\ EmptyReasonDisable(TextAt(p))
                 /\ Advisories[k].Position = <<LineAt(p), LineAt(p)>>
       /\ pc = "done" =>
            /\ intervals = getEnabledDisabledIntervals(ScanAs(<< >>, 1, 1, R1, "reasoned"))
            /\ \A p \in Places :
                 ( /\ IsDirective(TextAt(p), "disable", "", R1)
                   /\ ~EmptyReasonDisable(TextAt(p))
                   /\ \A q \in Places :
                        (Before(q, p) /\ ~EmptyReasonDisable(TextAt(q))) => ~Targets(TextAt(q), R1) )
                 => /\ IntervalsOf(intervals, R1) # <<>>
                    /\ intervals[R1][1].From = GroupEndLine(file[p[1]])

\* under the policy, a disable naming two rules without a reason gave one
\* advisory finding and no interval, and a disable:R1 with a reason gave an
\* interval and no finding
C6_Witness ==
  /\ pc = "done" /\ config.policy /\ Len(Advisories) = 1
  /\ \E p \in Places :
       /\ EmptyReasonDisable(TextAt(p))
       /\ Len(RuleNamesOf(FindStringSubmatch(TextAt(p))[rulesPos])) = 2
  /\ \E p \in Places :
       IsDirective(TextAt(p), "disable", "", R1) /\ ~EmptyReasonDisable(TextAt(p))
  /\ IntervalsOf(intervals, R1) # <<>>
  /\ IntervalsOf(intervals, R2) = <<>>

\* ---------------------------------------------------------------------- C11
\* C11: a finding flagged internal aborts the pass whatever the directives and
\* the confidence threshold say about it: once the rule that returned it has
\* been applied the pass is in error with that finding's message, and no
\* internal finding is ever put on the channel.
C11_InternalNeverFiltered ==
  /\ \A i \in 1..Len(out \o sendq) : ~(out \o sendq)[i].internal
  /\ \A r \in AppliedSet :
       HasInternal(r) =>
         /\ pc = "error"
         /\ \E i \in 1..Len(apply[r]) :
              apply[r][i].internal /\ err = apply[r][i].Failure

\* the pass aborted on an internal finding that lies in a disabled interval of
\* its rule and is below the confidence threshold
C11_Witness ==
  /\ pc = "error"
  /\ \E r \in AppliedSet : \E i \in 1..Len(apply[r]) :
       /\ apply[r][i].internal
       /\ Suppressed(WithRuleName(apply[r][i], r))
       /\ ~AtOrAboveThreshold(apply[r][i])

\* ------------------------------------------------------------- C12 .. C15
\* the lines of 1..MaxLine+1 that lie in an interval the toggle events of r
\* pair into
SuppressedLines(m, r) ==
  {x \in 1..(MaxLine + 1) :
     \E i \in 1..Len(RuleIntervals(IntervalsOf(m, r))) :
       /\ RuleIntervals(IntervalsOf(m, r))[i].From <= x
       /\ x <= RuleIntervals(IntervalsOf(m, r))[i].To}

\* C12: after a persistent enable for R1 at line L2 that follows other
\* directives for R1, every finding of R1 that lies entirely on lines > L2
\* and before the next disable directive for R1 is emitted (when its
\* confidence is at or above the threshold and R1 is not excluded).
C12_EnableReactivates ==
  pc = "done" =>
    \A p \in Places :
      ( /\ Targets(TextAt(p), R1)
        /\ ActionOf(TextAt(p)) = "enable" /\ ScopeOf(TextAt(p)) = ""
        /\ \E q \in Places : Before(q, p) /\ Targets(TextAt(q), R1) )
      => \A f \in Produced(R1) :
           ( /\ f.Position[1] > LineAt(p)
             /\ \A q \in Places :
                  ( /\ Before(p, q) /\ Targets(TextAt(q), R1)
                    /\ ActionOf(TextAt(q)) = "disable" ) => LineAt(q) > f.Position[2]
             /\ ~Excluded(R1) /\ AtOrAboveThreshold(f) /\ ~f.internal )
           => Emitted(f)

\* C13: the toggle-event list of a rule name never starts with an enable and
\* never holds two consecutive events with the same action.
C13_EventsAlternate ==
  \A name \in DOMAIN enabledDisabledRulesMap :
    LET events == enabledDisabledRulesMap[name]
    IN  /\ events # <<>> => ~events[1].enabled
        /\ \A i \in 1..(Len(events) - 1) : events[i].enabled # events[i + 1].enabled

\* the comment being scanned is a line or next-line scoped directive for r
ScopedDirectiveFor(r) ==
  /\ pc = "comments" /\ sendq = <<>> /\ gi <= Len(file)
  /\ Targets(file[gi].list[ci], r)
  /\ ScopeOf(file[gi].list[ci]) \in {"line", "next-line"}
\* the line the directive being scanned is meant to act on
ResolvedLine ==
  CommentLine(file[gi], ci) + (IF ScopeOf(file[gi].list[ci]) = "next-line" THEN 1 ELSE 0)

\* C14: scanning a line or next-line scoped directive for R1, in whatever
\* state the events of R1 are, appends exactly two events at the resolved
\* line and leaves the suppression of every other line as it was.
C14_ScopedDirectiveStep ==
  [][ ScopedDirectiveFor(R1) =>
        LET before == IntervalsOf(enabledDisabledRulesMap, R1)
            after == IntervalsOf(enabledDisabledRulesMap', R1)
            line == ResolvedLine
        IN  /\ Len(after) = Len(before) + 2
            /\ SubSeq(after, 1, Len(before)) = before
            /\ after[Len(after) - 1].position = line
            /\ after[Len(after)].position = line
            /\ SuppressedLines(enabledDisabledRulesMap', R1) \ {line}
                 = SuppressedLines(enabledDisabledRulesMap, R1) \ {line} ]_vars

\* C15: the intervals returned for a rule name are pairwise disjoint: no
\* line belongs to two of them.
C15_IntervalsDisjoint ==
  \A name \in DOMAIN intervals :
    \A i \in 1..Len(intervals[name]) : \A j \in 1..Len(intervals[name]) :
      i < j => \/ intervals[name][i].To < intervals[name][j].From
               \/ intervals[name][j].To < intervals[name][i].From

\* ---------------------------------------------------------------------- C18
\* C18: every toggle event that scanning a directive for R1 appends carries
\* the line of the directive comment itself, or that line + 1 when the
\* directive is next-line scoped, wherever in its comment group the comment
\* stands.
C18_DirectiveOwnLine ==
  [][ ( /\ pc = "comments" /\ sendq = <<>> /\ gi <= Len(file)
        /\ Targets(file[gi].list[ci], R1) )
      => LET before == IntervalsOf(enabledDisabledRulesMap, R1)
             after == IntervalsOf(enabledDisabledRulesMap', R1)
         IN  \A i \in (Len(before) + 1)..Len(after) :
               after[i].position = ResolvedLine ]_vars

\* ---------------------------------------------------------------------- C17
\* the index of the first internal finding in the Apply result of rule r
FirstInternalOf(r) ==
  CHOOSE i \in 1..Len(apply[r]) :
    apply[r][i].internal /\ \A j \in 1..(i - 1) : ~apply[r][j].internal
\* a finding that neither suppression nor the confidence gate removes
Deliverable(f) == ~f.internal /\ ~Suppressed(f) /\ AtOrAboveThreshold(f)

\* C17: when lint has returned the error of an internal finding, every
\* finding produced before the internal one that is not suppressed and is at
\* or above the threshold is on the output stream: those of the rules applied
\* earlier, and those that precede the internal finding in the Apply result
\* of the aborting rule.
C17_NothingDiscarded ==
  pc = "error" =>
    LET last == applied[Len(applied)]
    IN  /\ \A r \in AppliedSet \ {last} : \A f \in Produced(r) :
             Deliverable(f) => Emitted(f)
        /\ \A i \in 1..(FirstInternalOf(last) - 1) :
             Deliverable(WithRuleName(apply[last][i], last))
               => Emitted(WithRuleName(apply[last][i], last))

\* ---------------------------------------------------------------------- C16
\* a finding of rule r after normalization, as the claim describes it: an
\* empty rule name becomes r; the node gives the position only when the
\* finding has none yet
NormalizedAsClaimed(f, r) ==
  [f EXCEPT
     !.RuleName = IF @ = <<>> THEN r ELSE @,
     !.Position = IF @ = NoPosition /\ f.Node # NoNode THEN f.Node ELSE @]

\* C16: every rule finding on the stream is a finding of an applied rule
\* normalized that way, and every finding whose normalized name and position
\* are not suppressed (and whose confidence is at or above the threshold) is
\* on the stream with that name and position.
C16_Normalization ==
  pc = "done" =>
    /\ \A k \in 1..Len(out) :
         ~IsAdvisory(out[k]) =>
           \E r \in AppliedSet : \E i \in 1..Len(apply[r]) :
             out[k] = NormalizedAsClaimed(apply[r][i], r)
    /\ \A r \in AppliedSet : \A i \in 1..Len(apply[r]) :
         Deliverable(NormalizedAsClaimed(apply[r][i], r))
           => Emitted(NormalizedAsClaimed(apply[r][i], r))

\* ---------------------------------------------------------------------- C19
\* lint has returned
Returned == pc \in {"done", "error"}
\* lint is at a send that the consumer does not take
Blocked == sendq # <<>> /\ consumer.stops /\ Len(out) >= consumer.after
\* the issue a finding is to become in Format
IssueOf(f) ==
  [Line |-> f.Position[1], What |-> f.Failure, Confidence |-> f.Confidence,
   RuleName |-> f.RuleName]

C19_State ==
  \* no rule is applied twice, no excluded rule is applied
  /\ \A i \in 1..Len(applied) : \A j \in 1..Len(applied) :
       i < j => applied[i] # applied[j]
  /\ \A r \in AppliedSet : ~Excluded(r)
  /\ pc = "done" => applied = SelectSeq(Rules, LAMBDA r : ~Excluded(r))
  \* away from a send, lint can always take its next step
  /\ (~Returned /\ sendq = <<>>) => ENABLED lintStep
  \* a consumer that stopped after n values has been sent n at most, and lint
  \* waits at the send
  /\ consumer.stops => Len(out) <= consumer.after
  /\ Blocked => (~Returned /\ ~ENABLED (lintStep \/ Send))
  \* Format holds one issue for each finding sent, in the order sent
  /\ issues = [k \in 1..Len(out) |-> IssueOf(out[k])]
  \* Format returns after the close only, with all it received
  /\ fpc = "returned" =>
       /\ closed /\ Returned
       /\ document = IF out = <<>> THEN <<>>
                     ELSE <<[file |-> "fn", errors |-> [k \in 1..Len(out) |-> IssueOf(out[k])]]>>

\* C19: lint waits nowhere but at a send; with a consumer that receives all
\* it is offered lint returns (nil or the error), each rule that is not
\* excluded applied once at most; with a consumer that stops, lint stays at
\* its next send and nothing more is sent; Format receives each finding
\* sent exactly once and returns only after the channel is closed.
C19_Channel ==
  /\ []C19_State
  /\ [][Blocked => (out' = out /\ pc' = pc /\ sendq' = sendq)]_vars
  /\ (~consumer.stops) ~> Returned
  /\ <>(Returned \/ Blocked)

\* Format returned with two findings received or more
C19_Witness ==
  /\ fpc = "returned" /\ pc = "done" /\ Len(issues) >= 2
  /\ \E k \in 1..Len(out) : IsAdvisory(out[k])
  /\ \E k \in 1..Len(out) : ~IsAdvisory(out[k])

\* ---------------------------------------------------------------------- C20
\* the reasonless disable directives of the file
ReasonlessDisables == {p \in Places : EmptyReasonDisable(TextAt(p))}

\* C20: with the policy active, the specify-disable-reason findings are sent
\* while the intervals are built, before any rule is applied: on the stream
\* they all precede every rule finding, and once the intervals are built
\* there is exactly one for each reasonless disable directive, at its line,
\* whatever the intervals and the confidence threshold are and however the
\* pass ends.
C20_AdvisoriesFirst ==
  config.policy =>
    /\ \A i \in 1..Len(out) : \A j \in 1..Len(out) :
         (i < j /\ IsAdvisory(out[j])) => IsAdvisory(out[i])
    /\ pc = "comments" => (applied = <<>> /\ \A k \in 1..Len(out) : IsAdvisory(out[k]))
    /\ pc # "comments" =>
         /\ Len(SelectSeq(out, IsAdvisory)) = Cardinality(ReasonlessDisables)
         /\ \A p \in ReasonlessDisables : \E k \in 1..Len(out) :
              IsAdvisory(out[k]) /\ On(out[k], LineAt(p))

\* the pass aborted on an internal finding after sending a
\* specify-disable-reason finding that lies in a disabled interval recorded
\* under its own name and is below the confidence threshold
C20_Witness ==
  /\ pc = "error" /\ config.policy
  /\ \E k \in 1..Len(out) :
       IsAdvisory(out[k]) /\ Suppressed(out[k]) /\ ~AtOrAboveThreshold(out[k])

====
